---- MODULE Spec2Model ----
(***************************************************************************)
(* The projects namespace of the HTTP API                                  *)
(* (mindsdb/api/http/namespaces/projects.py): the project, model and view  *)
(* resources and the prediction endpoint.  Every handler is one action;    *)
(* the collaborators the handlers call (project directory, view registry,  *)
(* model controller, data hub) are modelled by what the handlers rely on.  *)
(***************************************************************************)
EXTENDS Integers, Sequences, FiniteSets, TLC

VARIABLES
    views,      \* the view registry: project -> view name -> stored view or None
    nextId,     \* the id the registry assigns to the next created view
    last,       \* the request handled last, with its response and the calls it made
    pre,        \* the registry (and history) as the last request found it
    gone,       \* history: (project, name) pairs deleted or found absent by a
                \* delete, with no successful creation of that name since
    born,       \* history: (project, name) -> the id creation told the caller
                \* and the query supplied last, while the view lives
    pending,    \* a prediction request received and not yet handled, or None
    reqs        \* view requests in flight at once, each with the line its
                \* handler has reached; empty when requests come one by one

vars == <<views, nextId, last, pre, gone, born, pending, reqs>>

----------------------------------------------------------------------------
(* Bounds *)

\* ids the registry may hand out: creation stops after MaxId views
MaxId == 3
\* longest model identifier, in characters
MaxLen == 5
\* view requests handled at the same time
NProcs == 2

----------------------------------------------------------------------------
(* Python values *)

\* Python's None / a missing optional value; a present value x is <<x>>
None == <<>>
Some(x) == <<x>>

----------------------------------------------------------------------------
(* Strings of the model identifier: sequences of characters.               *)
(* "SUP2" stands for the one character U+00B2 (superscript two).           *)

\* the decimal digits of the alphabet (str.isdecimal): int() converts these
DecimalChars == {"0", "3"}
\* str.isdigit characters: the decimals and the other digit characters
DigitChars == DecimalChars \cup {"SUP2"}
Alphabet == {"a", ".", "0", "3", "SUP2"}

DigitValue(c) == IF c = "0" THEN 0 ELSE 3

\* str.isdigit(): non-empty and every character a digit character
IsDigit(s) == Len(s) > 0 /\ \A i \in 1..Len(s) : s[i] \in DigitChars

\* whether int(s) returns (rather than raising ValueError) for a str.isdigit s
IntConverts(s) == \A i \in 1..Len(s) : s[i] \in DecimalChars

\* int(s) for a string of decimal characters
RECURSIVE PyInt(_)
PyInt(s) ==
    IF Len(s) = 0 THEN 0
    ELSE 10 * PyInt(SubSeq(s, 1, Len(s) - 1)) + DigitValue(s[Len(s)])

\* s.split('.'): the segments between the dots, empty segments included
RECURSIVE Split(_)
Split(s) ==
    IF \A i \in 1..Len(s) : s[i] # "."
    THEN <<s>>
    ELSE LET i == CHOOSE j \in 1..Len(s) :
                      s[j] = "." /\ \A k \in 1..(j - 1) : s[k] # "."
         IN  <<SubSeq(s, 1, i - 1)>> \o Split(SubSeq(s, i + 1, Len(s)))

\* '.'.join(parts)
RECURSIVE Join(_)
Join(parts) ==
    IF Len(parts) = 0 THEN <<>>
    ELSE IF Len(parts) = 1 THEN parts[1]
    ELSE parts[1] \o <<".">> \o Join(Tail(parts))

\* the parsing gone wrong: the version is taken and the suffix left on the
\* name
ParseModelName_KeepsSuffix(model_name) ==
    LET parts == Split(model_name)
        tail == parts[Len(parts)]
    IN  IF Len(parts) > 1 /\ IsDigit(tail)
        THEN IF IntConverts(tail)
             THEN [raised |-> "", model_name |-> model_name,
                   version |-> Some(PyInt(tail))]
             ELSE [raised |-> "ValueError", model_name |-> model_name,
                   version |-> None]
        ELSE [raised |-> "", model_name |-> model_name, version |-> None]

\* the version parsing at the head of ModelPredict.post: the locals
\* model_name and version after it, or the ValueError int() raises
ParseModelName(model_name) ==
    LET parts == Split(model_name)
        tail == parts[Len(parts)]
    IN  IF Len(parts) > 1 /\ IsDigit(tail)
        THEN IF IntConverts(tail)
             THEN [raised |-> "",
                   model_name |-> Join(SubSeq(parts, 1, Len(parts) - 1)),
                   version |-> Some(PyInt(tail))]
             ELSE [raised |-> "ValueError",
                   model_name |-> model_name,
                   version |-> None]
        ELSE [raised |-> "", model_name |-> model_name, version |-> None]

----------------------------------------------------------------------------
(* The collaborators *)

\* the projects database_controller.get_project finds; any other name
\* raises NoResultFound
Directory == {"p1", "p2"}
\* the names datahub.get resolves to a data node, in get_projects_names order
DataHubNames == <<"p1", "p2">>
\* the project names requests are addressed at: one the directory holds and
\* one it does not
Addressed == {"p1", "ghost"}
\* view names a URL may carry (a route segment is never empty)
ViewNames == {"v1", "v2"}
\* view names a POST body may carry
BodyNames == ViewNames \cup {""}
\* query texts a body may carry
Queries == {"SELECT 1", "SELECT 2", ""}

\* a view as the registry stores and returns it
StoredView(id, name, query) ==
    [name |-> name, query |-> query, metadata |-> [id |-> id, type |-> "view"]]

\* project.get_view(name): the stored view, or None
get_view(V, p, name) == V[p][name]

\* project.get_views(): the stored views, in the order of their ids
RECURSIVE ViewsFrom(_, _, _)
ViewsFrom(V, p, id) ==
    IF id > MaxId + 1 THEN <<>>
    ELSE LET here == {n \in BodyNames :
                        V[p][n] # None /\ V[p][n][1].metadata.id = id}
         IN  (IF here = {} THEN <<>> ELSE <<V[p][CHOOSE n \in here : TRUE][1]>>)
             \o ViewsFrom(V, p, id + 1)
get_views(V, p) == ViewsFrom(V, p, 1)

\* project.create_view(name, query): the registry gains the view under a
\* fresh id
create_view(V, nid, p, name, query) ==
    [views |-> [V EXCEPT ![p][name] = Some(StoredView(nid, name, query))],
     nextId |-> nid + 1]

\* project.update_view(name, query): the stored query is replaced, name
\* and id kept
update_view(V, p, name, query) ==
    [V EXCEPT ![p][name] = Some([V[p][name][1] EXCEPT !.query = query])]

\* project.delete_view(name)
delete_view(V, p, name) == [V EXCEPT ![p][name] = None]

----------------------------------------------------------------------------
(* Requests, responses and the record of the calls a handler makes *)

\* the JSON objects a view request may carry as request.json['view']
ViewObjs ==
    {f \in UNION {[S -> BodyNames \cup Queries] : S \in SUBSET {"name", "query"}} :
        /\ "name" \in DOMAIN f => f["name"] \in BodyNames
        /\ "query" \in DOMAIN f => f["query"] \in Queries}
\* the JSON bodies of a view request: with or without the 'view' key
ViewJsons == {<<>>} \cup {[k \in {"view"} |-> o] : o \in ViewObjs}
\* the JSON bodies of an upsert: 'query' present or not, 'name' (which the
\* handler never reads) absent or naming another view
PutJsons ==
    {j \in ViewJsons :
        "view" \in DOMAIN j /\ "name" \in DOMAIN j["view"]
            => j["view"] = [name |-> "v2", query |-> "SELECT 2"]}
\* the JSON bodies of a predict request: 'data' and 'params' each present
\* or not
PredictJsons ==
    UNION {[S -> {"payload"}] : S \in SUBSET {"data", "params"}}

\* a call of a collaborator, as the handler makes it
Call(fn, project, name, arg) ==
    [fn |-> fn, project |-> project, name |-> name, arg |-> arg]
\* the calls that change the registry
Mutating == {"create_view", "update_view", "delete_view"}
\* the calls into a view registry or the model collaborator
RegistryOrModel ==
    Mutating \cup {"get_view", "get_views", "get_models", "predict"}

\* what a handler leaves behind: the registry, the status and body of the
\* response, the collaborator calls in order
Result(V, nid, status, body, calls) ==
    [views |-> V, nextId |-> nid, status |-> status, body |-> body,
     calls |-> calls]

\* abort(status, message): the body flask_restx sends; arg is the name the
\* message is formatted with
Abort(V, nid, status, text, arg, calls) ==
    Result(V, nid, status, [message |-> [text |-> text, arg |-> arg]], calls)

\* an exception no handler catches: the framework answers 500
Unhandled(V, nid, exception, calls) ==
    Result(V, nid, "INTERNAL_SERVER_ERROR", [exception |-> exception], calls)

\* the projection gone wrong: the stored metadata is passed on
Public_WithMetadata(view) ==
    [id |-> view.metadata.id, name |-> view.name, query |-> view.query,
     metadata |-> view.metadata]

\* "Only want to return relevant fields to the user."
Public(view) ==
    [id |-> view.metadata.id, name |-> view.name, query |-> view.query]

\* session.database_controller.get_project(project_name) raises NoResultFound
NoResultFound(project_name) == project_name \notin Directory

ProjectMissing(V, nid, project_name) ==
    Abort(V, nid, "NOT_FOUND", "Project name {} does not exist", project_name,
          <<Call("get_project", project_name, "", None)>>)

----------------------------------------------------------------------------
(* The handlers.  Each takes the registry (V, nid) and the request and     *)
(* gives the Result: the registry after it, the response and the calls.    *)

\* ProjectsList.get
ProjectsList_get(V, nid) ==
    Result(V, nid, "OK",
           [i \in 1..Len(DataHubNames) |-> [name |-> DataHubNames[i]]],
           <<Call("get_projects_names", "", "", None)>>)

\* ProjectsGet.get
ProjectsGet_get(V, nid, project_name) ==
    IF NoResultFound(project_name)
    THEN ProjectMissing(V, nid, project_name)
    ELSE Result(V, nid, "OK", [name |-> project_name],
                <<Call("get_project", project_name, "", None)>>)

\* ModelsList.get: the project is handed to the model controller unresolved;
\* answer is what get_models does with it: "models" (it returns its list) or
\* the name of the exception it raises
ModelsList_get(V, nid, project_name, answer) ==
    LET calls == <<Call("get_models", project_name, "", None)>>
    IN  IF answer = "models"
        THEN Result(V, nid, "OK", [models |-> project_name], calls)
        ELSE Unhandled(V, nid, answer, calls)

\* ViewsList.get
ViewsList_get(V, nid, project_name) ==
    IF NoResultFound(project_name)
    THEN ProjectMissing(V, nid, project_name)
    ELSE LET all_views == get_views(V, project_name)
         IN  Result(V, nid, "OK",
                    [i \in 1..Len(all_views) |-> Public(all_views[i])],
                    <<Call("get_project", project_name, "", None),
                      Call("get_views", project_name, "", None)>>)

\* the existence check gone wrong: the name is looked up in every project
post_exists_anywhere(V, project_name, name) ==
    \E p \in Directory : get_view(V, p, name) # None

\* `project.get_view(name) is not None` of ViewsList.post
post_exists(V, project_name, name) == get_view(V, project_name, name) # None

\* the payload checks of ViewsList.post: the text of the abort, or "" when
\* the payload passes
post_invalid(json) ==
    IF "view" \notin DOMAIN json
    THEN "Must provide \"view\" parameter in POST body"
    ELSE IF "name" \notin DOMAIN json["view"]
    THEN "Missing \"name\" field for view"
    ELSE IF "query" \notin DOMAIN json["view"]
    THEN "Missing \"query\" field for view"
    ELSE ""

\* the handler gone wrong: the project is resolved before the payload is
\* looked at
ViewsList_post_ProjectFirst(V, nid, project_name, json) ==
    IF NoResultFound(project_name)
    THEN ProjectMissing(V, nid, project_name)
    ELSE IF post_invalid(json) # ""
    THEN Abort(V, nid, "BAD_REQUEST", post_invalid(json), "",
               <<Call("get_project", project_name, "", None)>>)
    ELSE
    LET name == json["view"]["name"]
        query == json["view"]["query"]
        c2 == <<Call("get_project", project_name, "", None),
                Call("get_view", project_name, name, None)>>
    IN  IF post_exists(V, project_name, name)
        THEN Abort(V, nid, "CONFLICT", "View with name {} already exists.",
                   name, c2)
        ELSE
        LET R == create_view(V, nid, project_name, name, query)
            created_view == get_view(R.views, project_name, name)
        IN  Result(R.views, R.nextId, "CREATED", Public(created_view[1]),
                   c2 \o <<Call("create_view", project_name, name, Some(query)),
                           Call("get_view", project_name, name, None)>>)

\* ViewsList.post
ViewsList_post(V, nid, project_name, json) ==
    IF post_invalid(json) # ""
    THEN Abort(V, nid, "BAD_REQUEST", post_invalid(json), "", <<>>)
    ELSE
    LET name == json["view"]["name"]
        query == json["view"]["query"]
        c1 == <<Call("get_project", project_name, "", None)>>
        c2 == c1 \o <<Call("get_view", project_name, name, None)>>
    IN  IF NoResultFound(project_name)
        THEN ProjectMissing(V, nid, project_name)
        ELSE IF post_exists(V, project_name, name)
        THEN Abort(V, nid, "CONFLICT", "View with name {} already exists.",
                   name, c2)
        ELSE
        LET R == create_view(V, nid, project_name, name, query)
            created_view == get_view(R.views, project_name, name)
        IN  Result(R.views, R.nextId, "CREATED", Public(created_view[1]),
                   c2 \o <<Call("create_view", project_name, name, Some(query)),
                           Call("get_view", project_name, name, None)>>)

\* ViewResource.get
ViewResource_get(V, nid, project_name, view_name) ==
    LET view == get_view(V, project_name, view_name)
        calls == <<Call("get_project", project_name, "", None),
                   Call("get_view", project_name, view_name, None)>>
    IN  IF NoResultFound(project_name)
        THEN ProjectMissing(V, nid, project_name)
        ELSE IF view = None
        THEN Abort(V, nid, "NOT_FOUND", "View with name {} does not exist",
                   view_name, calls)
        ELSE Result(V, nid, "OK", Public(view[1]), calls)

\* the branch gone wrong: every upsert takes the creation path
put_creates_always(existing_view) == TRUE

\* `existing_view is None` of ViewResource.put: the creation path
put_creates(existing_view) == existing_view = None

\* `'query' in request_view` of ViewResource.put
put_has_query(request_view) == "query" \in DOMAIN request_view

\* the update gone wrong: update_view called whether or not a query came
put_updates_always(request_view) == TRUE

\* the update gone wrong: update_view never called
put_updates_never(request_view) == FALSE

\* whether ViewResource.put calls update_view: the call sits under
\* `if 'query' in request_view`
put_updates(request_view) == put_has_query(request_view)

\* the creation path gone wrong: the status left at the default
put_created_status_default == "OK"

\* the status of ViewResource.put's creation path
put_created_status == "CREATED"

\* ViewResource.put
ViewResource_put(V, nid, project_name, view_name, json) ==
    IF "view" \notin DOMAIN json
    THEN Abort(V, nid, "BAD_REQUEST",
               "Must provide \"view\" parameter in PUT body", "", <<>>)
    ELSE IF NoResultFound(project_name)
    THEN ProjectMissing(V, nid, project_name)
    ELSE
    LET request_view == json["view"]
        existing_view == get_view(V, project_name, view_name)
        c2 == <<Call("get_project", project_name, "", None),
                Call("get_view", project_name, view_name, None)>>
        reread == <<Call("get_view", project_name, view_name, None)>>
    IN  IF put_creates(existing_view)
        THEN IF ~put_has_query(request_view)
             THEN Abort(V, nid, "BAD_REQUEST",
                        "Missing \"query\" field for new view", "", c2)
             ELSE
             LET R == create_view(V, nid, project_name, view_name,
                                  request_view["query"])
                 created_view == get_view(R.views, project_name, view_name)
             IN  Result(R.views, R.nextId, put_created_status,
                        Public(created_view[1]),
                        c2 \o <<Call("create_view", project_name, view_name,
                                     Some(request_view["query"]))>> \o reread)
        ELSE
        LET new_query == IF put_has_query(request_view)
                         THEN request_view["query"]
                         ELSE existing_view[1].query
        IN  IF put_updates(request_view)
            THEN LET W == update_view(V, project_name, view_name, new_query)
                 IN  Result(W, nid, "OK",
                            Public(get_view(W, project_name, view_name)[1]),
                            c2 \o <<Call("update_view", project_name, view_name,
                                         Some(new_query))>> \o reread)
            ELSE Result(V, nid, "OK",
                        Public(get_view(V, project_name, view_name)[1]),
                        c2 \o reread)

\* the delete gone wrong: no existence check
delete_absent_never(V, project_name, view_name) == FALSE

\* `project.get_view(view_name) is None` of ViewResource.delete
delete_absent(V, project_name, view_name) ==
    get_view(V, project_name, view_name) = None

\* the handler gone wrong: delete_view is called before the existence check
ViewResource_delete_ActsFirst(V, nid, project_name, view_name) ==
    LET c3 == <<Call("get_project", project_name, "", None),
                Call("delete_view", project_name, view_name, None),
                Call("get_view", project_name, view_name, None)>>
    IN  IF NoResultFound(project_name)
        THEN ProjectMissing(V, nid, project_name)
        ELSE IF delete_absent(V, project_name, view_name)
        THEN Abort(V, nid, "NOT_FOUND", "View with name {} does not exist",
                   view_name, c3)
        ELSE Result(delete_view(V, project_name, view_name), nid,
                    "NO_CONTENT", <<>>, c3)

\* ViewResource.delete
ViewResource_delete(V, nid, project_name, view_name) ==
    LET c2 == <<Call("get_project", project_name, "", None),
                Call("get_view", project_name, view_name, None)>>
    IN  IF NoResultFound(project_name)
        THEN ProjectMissing(V, nid, project_name)
        ELSE IF delete_absent(V, project_name, view_name)
        THEN Abort(V, nid, "NOT_FOUND", "View with name {} does not exist",
                   view_name, c2)
        ELSE Result(delete_view(V, project_name, view_name), nid,
                    "NO_CONTENT", <<>>,
                    c2 \o <<Call("delete_view", project_name, view_name, None)>>)

\* session.datahub.get(project_name): the data node, or None
datahub_get(project_name) ==
    IF \E i \in 1..Len(DataHubNames) : DataHubNames[i] = project_name
    THEN Some(project_name)
    ELSE None

\* the handler gone wrong: the data hub is asked before the body is read
ModelPredict_post_LookupFirst(V, nid, project_name, model_name, json) ==
    LET parsed == ParseModelName(model_name)
        params == IF "params" \in DOMAIN json THEN Some(json["params"]) ELSE None
        project_datanode == datahub_get(project_name)
        c1 == <<Call("datahub.get", project_name, "", None)>>
    IN  IF parsed.raised # ""
        THEN Unhandled(V, nid, parsed.raised, <<>>)
        ELSE IF project_datanode = None
        THEN Abort(V, nid, "INTERNAL_SERVER_ERROR", "Project not found: {}",
                   project_name, c1)
        ELSE IF "data" \notin DOMAIN json
        THEN Unhandled(V, nid, "KeyError", c1)
        ELSE Result(V, nid, "OK", [records |-> project_name],
                    c1 \o <<Call("predict", project_name, parsed.model_name,
                                 <<Some(json["data"]), parsed.version, params>>)>>)

\* ModelPredict.post
ModelPredict_post(V, nid, project_name, model_name, json) ==
    LET parsed == ParseModelName(model_name)
        params == IF "params" \in DOMAIN json THEN Some(json["params"]) ELSE None
        project_datanode == datahub_get(project_name)
        c1 == <<Call("datahub.get", project_name, "", None)>>
    IN  IF parsed.raised # ""
        THEN Unhandled(V, nid, parsed.raised, <<>>)
        ELSE IF "data" \notin DOMAIN json
        THEN Unhandled(V, nid, "KeyError", <<>>)
        ELSE IF project_datanode = None
        THEN Abort(V, nid, "INTERNAL_SERVER_ERROR", "Project not found: {}",
                   project_name, c1)
        ELSE Result(V, nid, "OK", [records |-> project_name],
                    c1 \o <<Call("predict", project_name, parsed.model_name,
                                 <<Some(json["data"]), parsed.version, params>>)>>)

----------------------------------------------------------------------------
(* The state machine: one action per handler *)

\* the request handled and the response sent; view_name is the view a view
\* request names (in the URL, or in the body of a create), model_name the
\* identifier of a predict request
Handled(op, project, view_name, model_name, json, R) ==
    [op |-> op, project |-> project, view_name |-> view_name,
     model_name |-> model_name, json |-> json,
     status |-> R.status, body |-> R.body, calls |-> R.calls]

\* history kept beside the registry: a creation records the id the caller
\* was told and the query supplied, an updating upsert the query supplied,
\* a delete (successful or not-found) that the name is gone
Record(op, project, view_name, json, R) ==
    LET at == <<project, view_name>>
    IN  /\ gone' = IF R.status = "CREATED" THEN gone \ {at}
                   ELSE IF op = "delete_view" /\ project \in Directory
                           /\ R.status \in {"NO_CONTENT", "NOT_FOUND"}
                   THEN gone \cup {at}
                   ELSE gone
        /\ born' = IF R.status = "CREATED"
                   THEN [born EXCEPT ![at] =
                            Some([id |-> R.body.id,
                                  query |-> json["view"]["query"]])]
                   ELSE IF op = "update_view" /\ R.status = "OK"
                           /\ "query" \in DOMAIN json["view"]
                           /\ born[at] # None
                   THEN [born EXCEPT ![at] =
                            Some([id |-> born[at][1].id,
                                  query |-> json["view"]["query"]])]
                   ELSE IF op = "delete_view" /\ R.status = "NO_CONTENT"
                   THEN [born EXCEPT ![at] = None]
                   ELSE born

Handle(op, project, view_name, model_name, json, R) ==
    /\ R.nextId <= MaxId + 1
    /\ views' = R.views
    /\ nextId' = R.nextId
    /\ last' = Handled(op, project, view_name, model_name, json, R)
    /\ pre' = [views |-> views, nextId |-> nextId, gone |-> gone, born |-> born]
    /\ Record(op, project, view_name, json, R)
    /\ pending' = None
    /\ reqs' = reqs

\* no request handled yet
NoRequest ==
    [op |-> "none", project |-> "", view_name |-> "", model_name |-> <<>>,
     json |-> <<>>, status |-> "", body |-> <<>>, calls |-> <<>>]

\* the registry the handlers start from: project p1 empty, project p2
\* holding one view, stored under id 1, whose name requests to p1 reuse
InitRegistry ==
    /\ views = [p \in Directory |->
                  [n \in BodyNames |->
                      IF p = "p2" /\ n = "v1"
                      THEN Some(StoredView(1, "v1", "SELECT 1"))
                      ELSE None]]
    /\ nextId = 2
    /\ last = NoRequest
    /\ gone = {}
    /\ born = [at \in Directory \X BodyNames |-> None]
    /\ pre = [views |-> views, nextId |-> nextId, gone |-> gone, born |-> born]

Init == InitRegistry /\ pending = None /\ reqs = <<>>

ListProjects ==
    Handle("list_projects", "", "", <<>>, <<>>, ProjectsList_get(views, nextId))

GetProject ==
    \E p \in Addressed :
        Handle("get_project", p, "", <<>>, <<>>, ProjectsGet_get(views, nextId, p))

\* what get_models does with a project the directory does not hold is the
\* model controller's: it returns a list or raises
ListModels ==
    \E p \in Addressed :
        \E answer \in IF p \in Directory THEN {"models"}
                       ELSE {"models", "NoResultFound"} :
            Handle("list_models", p, "", <<>>, <<>>,
                   ModelsList_get(views, nextId, p, answer))

ListViews ==
    \E p \in Addressed :
        Handle("list_views", p, "", <<>>, <<>>, ViewsList_get(views, nextId, p))

CreateView ==
    \E p \in Addressed, json \in ViewJsons :
        Handle("create_view", p,
               IF post_invalid(json) = "" THEN json["view"]["name"] ELSE "",
               <<>>, json, ViewsList_post(views, nextId, p, json))

GetView ==
    \E p \in Addressed, n \in ViewNames :
        Handle("get_view", p, n, <<>>, <<>>, ViewResource_get(views, nextId, p, n))

UpsertView ==
    \E p \in Addressed, n \in ViewNames, json \in PutJsons :
        Handle("update_view", p, n, <<>>, json,
               ViewResource_put(views, nextId, p, n, json))

DeleteView ==
    \E p \in Addressed, n \in ViewNames :
        Handle("delete_view", p, n, <<>>, <<>>,
               ViewResource_delete(views, nextId, p, n))

Next ==
    \/ ListProjects
    \/ GetProject
    \/ ListModels
    \/ ListViews
    \/ CreateView
    \/ GetView
    \/ UpsertView
    \/ DeleteView

Spec == Init /\ [][Next]_vars

----------------------------------------------------------------------------
(* The prediction endpoint, driven with every model identifier: the        *)
(* request is drawn at the start and handled once.  ModelPredict.post      *)
(* reads and writes nothing of the registry, so it runs apart from the     *)
(* view requests.                                                          *)

\* the strings over the alphabet of length n
RECURSIVE Strings(_)
Strings(n) ==
    IF n = 0 THEN {<<>>}
    ELSE {Append(s, c) : s \in Strings(n - 1), c \in Alphabet}
ModelIds == UNION {Strings(n) : n \in 0..MaxLen}

InitPredict ==
    /\ InitRegistry
    /\ pending \in {Some([project |-> p, model_name |-> m, json |-> j]) :
                      p \in Addressed, m \in ModelIds, j \in PredictJsons}
    /\ reqs = <<>>

Predict ==
    /\ pending # None
    /\ Handle("predict", pending[1].project, "", pending[1].model_name,
              pending[1].json,
              ModelPredict_post(views, nextId, pending[1].project,
                                pending[1].model_name, pending[1].json))

NextPredict == Predict

SpecPredict == InitPredict /\ [][NextPredict]_vars

----------------------------------------------------------------------------
(* View requests handled at the same time.  The server runs handlers in    *)
(* parallel and no handler takes a lock, so between two registry calls of  *)
(* one handler the calls of another may come.  Each step below is one      *)
(* registry call of one handler, with the handler's code up to its next    *)
(* call; get_project goes with the first, the directory being fixed.  All  *)
(* requests address one view of one existing project.                      *)

ConcProject == "p1"
ConcView == "v1"
ConcQueries == {"SELECT 1", "SELECT 2"}
Procs == 1..NProcs

\* the requests in flight: create, upsert with and without query, get, delete
ConcRequests ==
    {[op |-> "create_view", json |-> [view |-> [name |-> ConcView, query |-> q]]] :
        q \in ConcQueries}
    \cup {[op |-> "update_view", json |-> [view |-> [query |-> q]]] :
             q \in ConcQueries}
    \cup {[op |-> "update_view", json |-> [view |-> <<>>]],
          [op |-> "get_view", json |-> <<>>],
          [op |-> "delete_view", json |-> <<>>]}

\* a request received, its handler not yet started.  seen is what the
\* handler's existence check got from get_view; raced tells that the
\* mutating call found the view's presence other than the check had seen
Received(request) ==
    [op |-> request.op, json |-> request.json, pc |-> "start", seen |-> None,
     status |-> "", exception |-> "", calls |-> <<>>, raced |-> FALSE]

\* the handler returns or aborts
Finish(r, status) == [r EXCEPT !.pc = "done", !.status = status]
\* an exception leaves the handler: the framework answers 500
Raise(r, exception) ==
    [r EXCEPT !.pc = "done", !.status = "INTERNAL_SERVER_ERROR",
              !.exception = exception]
\* the call just made, added to the handler's record
Calling(r, fn, arg) ==
    [r EXCEPT !.calls = Append(r.calls, Call(fn, ConcProject, ConcView, arg))]

InitConc ==
    /\ \E present \in BOOLEAN :
          /\ views = [p \in Directory |->
                        [n \in BodyNames |->
                            IF p = "p2" /\ n = "v1"
                            THEN Some(StoredView(1, "v1", "SELECT 1"))
                            ELSE IF present /\ p = ConcProject /\ n = ConcView
                            THEN Some(StoredView(2, ConcView, "SELECT 1"))
                            ELSE None]]
          /\ nextId = IF present THEN 3 ELSE 2
    /\ last = NoRequest
    /\ gone = {}
    /\ born = [at \in Directory \X BodyNames |-> None]
    /\ pre = [views |-> views, nextId |-> nextId, gone |-> gone, born |-> born]
    /\ pending = None
    /\ reqs \in [Procs -> {Received(request) : request \in ConcRequests}]

\* get_project and the first get_view of a handler, with the branch taken
\* on what it returns
Check(i) ==
    LET r == reqs[i]
        view == get_view(views, ConcProject, ConcView)
        s == [Calling([r EXCEPT !.calls =
                          <<Call("get_project", ConcProject, "", None)>>],
                      "get_view", None)
                 EXCEPT !.seen = view]
    IN  /\ r.pc = "start"
        /\ UNCHANGED <<views, nextId, last, pre, gone, born, pending>>
        /\ reqs' = [reqs EXCEPT ![i] =
              CASE r.op = "create_view" ->
                     IF post_exists(views, ConcProject, ConcView)
                     THEN Finish(s, "CONFLICT")
                     ELSE [s EXCEPT !.pc = "act"]
                [] r.op = "get_view" ->
                     IF view = None THEN Finish(s, "NOT_FOUND")
                     ELSE Finish(s, "OK")
                [] r.op = "update_view" ->
                     IF put_creates(view)
                     THEN IF ~put_has_query(r.json["view"])
                          THEN Finish(s, "BAD_REQUEST")
                          ELSE [s EXCEPT !.pc = "act"]
                     ELSE IF put_updates(r.json["view"])
                          THEN [s EXCEPT !.pc = "act"]
                          ELSE [s EXCEPT !.pc = "reread"]
                [] r.op = "delete_view" ->
                     IF delete_absent(views, ConcProject, ConcView)
                     THEN Finish(s, "NOT_FOUND")
                     ELSE [s EXCEPT !.pc = "act"]]

\* the step gone wrong: create_view looks again and reports the conflict
ActCreate_Rechecks(i) ==
    LET r == reqs[i]
        query == r.json["view"]["query"]
        R == create_view(views, nextId, ConcProject, ConcView, query)
    IN  /\ r.pc = "act"
        /\ r.op = "create_view" \/ (r.op = "update_view" /\ r.seen = None)
        /\ UNCHANGED <<last, pre, gone, born, pending>>
        /\ IF views[ConcProject][ConcView] # None
           THEN /\ UNCHANGED <<views, nextId>>
                /\ reqs' = [reqs EXCEPT ![i] =
                      Finish(Calling(r, "get_view", None), "CONFLICT")]
           ELSE /\ views' = R.views
                /\ nextId' = R.nextId
                /\ reqs' = [reqs EXCEPT ![i] =
                      [Calling(r, "create_view", Some(query))
                          EXCEPT !.pc = "reread"]]

\* project.create_view of ViewsList.post and of ViewResource.put's creation
\* path.  Nothing is checked again: the call is made on what the check saw.
\* What create_view does with a name that has come to exist since is the
\* registry's: it raises, or stores the view anew
ActCreate(i) ==
    LET r == reqs[i]
        query == r.json["view"]["query"]
        R == create_view(views, nextId, ConcProject, ConcView, query)
        c == [Calling(r, "create_view", Some(query))
                 EXCEPT !.raced = views[ConcProject][ConcView] # None]
    IN  /\ r.pc = "act"
        /\ r.op = "create_view" \/ (r.op = "update_view" /\ r.seen = None)
        /\ UNCHANGED <<last, pre, gone, born, pending>>
        /\ \/ /\ views' = R.views
              /\ nextId' = R.nextId
              /\ reqs' = [reqs EXCEPT ![i] = [c EXCEPT !.pc = "reread"]]
           \/ /\ views[ConcProject][ConcView] # None
              /\ UNCHANGED <<views, nextId>>
              /\ reqs' = [reqs EXCEPT ![i] = Raise(c, "RegistryError")]

\* project.update_view of ViewResource.put.  What update_view does with a
\* view deleted since the check is the registry's: it raises, or does nothing
ActUpdate(i) ==
    LET r == reqs[i]
        query == r.json["view"]["query"]
        c == [Calling(r, "update_view", Some(query))
                 EXCEPT !.raced = views[ConcProject][ConcView] = None]
    IN  /\ r.pc = "act"
        /\ r.op = "update_view" /\ r.seen # None
        /\ UNCHANGED <<nextId, last, pre, gone, born, pending>>
        /\ \/ /\ views[ConcProject][ConcView] # None
              /\ views' = update_view(views, ConcProject, ConcView, query)
              /\ reqs' = [reqs EXCEPT ![i] = [c EXCEPT !.pc = "reread"]]
           \/ /\ views[ConcProject][ConcView] = None
              /\ UNCHANGED views
              /\ reqs' = [reqs EXCEPT ![i] = [c EXCEPT !.pc = "reread"]]
           \/ /\ views[ConcProject][ConcView] = None
              /\ UNCHANGED views
              /\ reqs' = [reqs EXCEPT ![i] = Raise(c, "RegistryError")]

\* project.delete_view of ViewResource.delete, then the empty response.
\* What delete_view does with a view deleted since the check is the
\* registry's: it raises, or does nothing
ActDelete(i) ==
    LET r == reqs[i]
        c == [Calling(r, "delete_view", None)
                 EXCEPT !.raced = views[ConcProject][ConcView] = None]
    IN  /\ r.pc = "act"
        /\ r.op = "delete_view"
        /\ UNCHANGED <<nextId, last, pre, gone, born, pending>>
        /\ \/ /\ views' = delete_view(views, ConcProject, ConcView)
              /\ reqs' = [reqs EXCEPT ![i] = Finish(c, "NO_CONTENT")]
           \/ /\ views[ConcProject][ConcView] = None
              /\ UNCHANGED views
              /\ reqs' = [reqs EXCEPT ![i] = Raise(c, "RegistryError")]

\* the get_view after create_view or update_view, and the response built
\* from what it returns with no test for None: subscripting None raises
\* TypeError
Reread(i) ==
    LET r == reqs[i]
        view == get_view(views, ConcProject, ConcView)
        c == Calling(r, "get_view", None)
    IN  /\ r.pc = "reread"
        /\ UNCHANGED <<views, nextId, last, pre, gone, born, pending>>
        /\ reqs' = [reqs EXCEPT ![i] =
              IF view = None
              THEN Raise(c, "TypeError")
              ELSE IF r.op = "create_view" \/ put_creates(r.seen)
              THEN Finish(c, put_created_status)
              ELSE Finish(c, "OK")]

NextConc ==
    \E i \in Procs :
        \/ Check(i)
        \/ ActCreate(i)
        \/ ActUpdate(i)
        \/ ActDelete(i)
        \/ Reread(i)

SpecConc == InitConc /\ [][NextConc]_vars

----------------------------------------------------------------------------
(* What the claims speak of *)

\* whether the last request made a call of this name
Called(fn) == \E i \in 1..Len(last.calls) : last.calls[i].fn = fn
\* how many calls of this name the last request made
Calls(fn) == Cardinality({i \in 1..Len(last.calls) : last.calls[i].fn = fn})
\* whether the last request made a call that changes the registry
CalledMutating == \E fn \in Mutating : Called(fn)

\* the registry slots
Slots == Directory \X BodyNames
\* the registry after the last request differs from the one before it at
\* most at this slot
OnlyChanged(p, n) ==
    \A at \in Slots \ {<<p, n>>} : views[at[1]][at[2]] = pre.views[at[1]][at[2]]

\* a body that carries a view object with both name and query
HasNameAndQuery(json) ==
    /\ "view" \in DOMAIN json
    /\ {"name", "query"} \subseteq DOMAIN json["view"]

----------------------------------------------------------------------------
(* C1: a create-view request with name and query, addressed at an existing *)
(* project, ends in conflict exactly when a view of that name is stored in *)
(* that project; then create_view is not called and the registry is as it  *)
(* was; otherwise the registry gains exactly the one view, with the name   *)
(* and query given, and the outcome is created.                            *)
C1_CreateConflictIffExists ==
    (last.op = "create_view" /\ HasNameAndQuery(last.json)
        /\ last.project \in Directory)
    => LET p == last.project
           n == last.json["view"]["name"]
           q == last.json["view"]["query"]
           existed == pre.views[p][n] # None
       IN  /\ (last.status = "CONFLICT") <=> existed
           /\ existed => /\ ~Called("create_view")
                          /\ views = pre.views
           /\ ~existed => /\ last.status = "CREATED"
                           /\ Calls("create_view") = 1
                           /\ views[p][n] # None
                           /\ views[p][n][1].name = n
                           /\ views[p][n][1].query = q
                           /\ OnlyChanged(p, n)

\* a create was refused with conflict
C1_Witness ==
    /\ last.op = "create_view"
    /\ last.status = "CONFLICT"
    /\ last.project \in Directory

----------------------------------------------------------------------------
(* C2: an upsert of a name the project does not hold is a create of that   *)
(* name: without a query it ends in bad-request and changes nothing, with  *)
(* a query the registry gains the view and the response is its id, name    *)
(* and query with created status; registry and status are those a          *)
(* create-view request with the same name and query gives.                 *)

\* the body of the create-view request carrying the name and the body's query
CreateJson(n, json) ==
    IF "view" \notin DOMAIN json THEN json
    ELSE IF "query" \in DOMAIN json["view"]
    THEN [view |-> [name |-> n, query |-> json["view"]["query"]]]
    ELSE [view |-> [name |-> n]]

\* C2: an upsert of an absent name leaves the registry and status a create
\* of that name and query leaves
C2_UpsertAbsentIsCreate ==
    (last.op = "update_view" /\ last.project \in Directory
        /\ pre.views[last.project][last.view_name] = None)
    => LET p == last.project
           n == last.view_name
           hasq == "view" \in DOMAIN last.json
                     /\ "query" \in DOMAIN last.json["view"]
           post == ViewsList_post(pre.views, pre.nextId, p,
                                  CreateJson(n, last.json))
       IN  /\ ~hasq => /\ last.status = "BAD_REQUEST"
                        /\ views = pre.views
           /\ hasq => /\ last.status = "CREATED"
                       /\ views[p][n] # None
                       /\ views[p][n][1].name = n
                       /\ views[p][n][1].query = last.json["view"]["query"]
                       /\ last.body = Public(views[p][n][1])
                       /\ last.body = post.body
                       /\ OnlyChanged(p, n)
           /\ views = post.views
           /\ nextId = post.nextId
           /\ last.status = post.status

\* an upsert created the view
C2_Witness ==
    /\ last.op = "update_view"
    /\ last.status = "CREATED"
    /\ pre.views[last.project][last.view_name] = None

----------------------------------------------------------------------------
(* C3: an upsert of a name the project holds, with no query in the body,   *)
(* makes no mutating call, leaves every stored view as it was and returns  *)
(* the stored view's id, name and query with success (not created) status. *)
C3_UpsertNoQueryUnchanged ==
    (last.op = "update_view" /\ last.project \in Directory
        /\ "view" \in DOMAIN last.json
        /\ "query" \notin DOMAIN last.json["view"]
        /\ pre.views[last.project][last.view_name] # None)
    => /\ ~CalledMutating
       /\ views = pre.views
       /\ last.status = "OK"
       /\ last.body = Public(pre.views[last.project][last.view_name][1])

\* an upsert without a query met a stored view
C3_Witness ==
    /\ last.op = "update_view"
    /\ last.project \in Directory
    /\ "view" \in DOMAIN last.json
    /\ "query" \notin DOMAIN last.json["view"]
    /\ pre.views[last.project][last.view_name] # None
    /\ last.status = "OK"

----------------------------------------------------------------------------
(* C4: once a view is created, get view returns its name, the id assigned  *)
(* at creation and the query supplied last (by the create or by an upsert  *)
(* since); the id of a stored view never changes while the view stays      *)
(* stored.                                                                 *)

\* what the caller was told of a live view, as get view must return it
Told(at, history) ==
    [id |-> history[at][1].id, name |-> at[2], query |-> history[at][1].query]

C4_GetReturnsTold ==
    /\ \A at \in Directory \X ViewNames :
          born[at] # None
          => LET g == ViewResource_get(views, nextId, at[1], at[2])
             IN  g.status = "OK" /\ g.body = Told(at, born)
    /\ (last.op = "get_view" /\ last.project \in Directory
          /\ pre.born[<<last.project, last.view_name>>] # None)
       => /\ last.status = "OK"
          /\ last.body = Told(<<last.project, last.view_name>>, pre.born)

C4_IdKept ==
    \A at \in Slots :
        (views[at[1]][at[2]] # None /\ views'[at[1]][at[2]] # None)
        => views'[at[1]][at[2]][1].metadata.id = views[at[1]][at[2]][1].metadata.id

\* C4: get view returns what creation and the last upsert told, and a
\* stored view keeps its id
C4_RoundTripStableId == [](C4_GetReturnsTold) /\ [][C4_IdKept]_vars

\* an upsert replaced the query of a view created earlier
C4_Witness ==
    /\ last.op = "update_view"
    /\ last.status = "OK"
    /\ "query" \in DOMAIN last.json["view"]
    /\ pre.born[<<last.project, last.view_name>>] # None
    /\ pre.born[<<last.project, last.view_name>>][1].query
         # last.json["view"]["query"]
    /\ born[<<last.project, last.view_name>>][1].query = last.json["view"]["query"]

----------------------------------------------------------------------------
(* The model identifier as the specification reads it: the part after the  *)
(* last dot is the version when it is a non-empty run of decimal digits.   *)

\* the place of the last dot, 0 when there is none
LastDot(s) ==
    IF \E i \in 1..Len(s) : s[i] = "."
    THEN CHOOSE i \in 1..Len(s) :
            s[i] = "." /\ \A k \in (i + 1)..Len(s) : s[k] # "."
    ELSE 0

RECURSIVE Pow10(_)
Pow10(n) == IF n = 0 THEN 1 ELSE 10 * Pow10(n - 1)

\* the number a run of the decimal digits 0-9 writes
RECURSIVE Written(_)
Written(s) ==
    IF Len(s) = 0 THEN 0
    ELSE (IF s[1] = "3" THEN 3 ELSE 0) * Pow10(Len(s) - 1) + Written(Tail(s))

Resolved(s) ==
    LET d == LastDot(s)
        suffix == SubSeq(s, d + 1, Len(s))
    IN  IF d > 0 /\ Len(suffix) > 0
           /\ \A i \in 1..Len(suffix) : suffix[i] \in {"0", "3"}
        THEN [model_name |-> SubSeq(s, 1, d - 1), version |-> Some(Written(suffix))]
        ELSE [model_name |-> s, version |-> None]

----------------------------------------------------------------------------
(* C5: for every model identifier the parsing gives (the segments before   *)
(* the last rejoined, the last segment as an integer) when there are two   *)
(* or more segments and the last is a non-empty run of decimal digits, and *)
(* (the whole identifier, no version) otherwise.                           *)
C5_ParsesEveryIdentifier ==
    last.op = "predict"
    => LET r == ParseModelName(last.model_name)
       IN  /\ r.raised = ""
           /\ r.model_name = Resolved(last.model_name).model_name
           /\ r.version = Resolved(last.model_name).version

----------------------------------------------------------------------------
(* C6: a predict request whose body has no data field ends in bad-request, *)
(* whatever the model identifier and the project.                          *)
C6_NoDataIsBadRequest ==
    (last.op = "predict" /\ "data" \notin DOMAIN last.json)
    => last.status = "BAD_REQUEST"

----------------------------------------------------------------------------
(* C7: every well-formed request other than a prediction that is addressed *)
(* at a project the directory does not hold ends in not-found with a       *)
(* message naming the project, and calls neither a view registry nor the   *)
(* model collaborator.                                                     *)
C7_MissingProjectIsNotFound ==
    (/\ last.op \in {"get_project", "list_models", "list_views", "create_view",
                      "get_view", "update_view", "delete_view"}
     /\ last.project \notin Directory
     /\ last.op = "create_view" => HasNameAndQuery(last.json)
     /\ last.op = "update_view" => "view" \in DOMAIN last.json)
    => /\ last.status = "NOT_FOUND"
       /\ last.body.message.arg = last.project
       /\ \A i \in 1..Len(last.calls) : last.calls[i].fn \notin RegistryOrModel

----------------------------------------------------------------------------
(* C8: in a predict request with data, once the data hub has been asked    *)
(* for the project: if it has no target the request ends in the internal   *)
(* error class, not in not-found, and predict is not invoked; if it has    *)
(* one, predict is invoked exactly once, with the base model name, the     *)
(* data, the version (unset when the identifier has none) and the params   *)
(* as received (unset when absent).                                        *)
C8_DispatchAfterLookup ==
    (last.op = "predict" /\ "data" \in DOMAIN last.json /\ Called("datahub.get"))
    => IF \A i \in 1..Len(DataHubNames) : DataHubNames[i] # last.project
       THEN /\ last.status = "INTERNAL_SERVER_ERROR"
            /\ ~Called("predict")
       ELSE /\ Calls("predict") = 1
            /\ Calls("datahub.get") = 1
            /\ \A i \in 1..Len(last.calls) :
                  last.calls[i].fn = "predict"
                  => /\ last.calls[i].project = last.project
                     /\ last.calls[i].name = Resolved(last.model_name).model_name
                     /\ last.calls[i].arg =
                          <<Some(last.json["data"]),
                            Resolved(last.model_name).version,
                            IF "params" \in DOMAIN last.json
                            THEN Some(last.json["params"]) ELSE None>>

\* predict was invoked for an identifier with a version and dots before it,
\* without params
C8_Witness ==
    /\ last.op = "predict"
    /\ Called("predict")
    /\ last.model_name = <<"a", ".", "a", ".", "3">>
    /\ "params" \notin DOMAIN last.json

----------------------------------------------------------------------------
(* C9: a delete of a name the project does not hold ends in not-found,     *)
(* calls no delete_view and changes nothing; once a delete of a name has   *)
(* ended (not-found or no-content), every delete and every get of the name *)
(* ends in not-found until the name is created again; a delete of a stored *)
(* view removes that view and no other and answers no-content, body empty. *)
C9_DeleteAbsentAndPresent ==
    LET at == <<last.project, last.view_name>>
    IN  /\ (last.op = "delete_view" /\ last.project \in Directory)
           => IF pre.views[last.project][last.view_name] = None
              THEN /\ last.status = "NOT_FOUND"
                   /\ ~Called("delete_view")
                   /\ views = pre.views
              ELSE /\ last.status = "NO_CONTENT"
                   /\ last.body = <<>>
                   /\ Calls("delete_view") = 1
                   /\ views[last.project][last.view_name] = None
                   /\ OnlyChanged(last.project, last.view_name)
        /\ (last.op \in {"delete_view", "get_view"} /\ at \in pre.gone)
           => last.status = "NOT_FOUND"
        /\ \A g \in gone :
              /\ ViewResource_get(views, nextId, g[1], g[2]).status = "NOT_FOUND"
              /\ ViewResource_delete(views, nextId, g[1], g[2]).status = "NOT_FOUND"

\* a delete ended not-found after an earlier delete of the name had: no
\* view was ever created (the registry has handed out no id)
C9_Witness ==
    /\ last.op = "delete_view"
    /\ last.status = "NOT_FOUND"
    /\ <<last.project, last.view_name>> \in pre.gone
    /\ nextId = 2

----------------------------------------------------------------------------
(* C10: a create-view request whose body has no view object, or one        *)
(* without name or without query, or with an empty name or an empty query, *)
(* ends in bad-request and leaves the registry unchanged.                  *)
C10_CreateNeedsNonEmpty ==
    (last.op = "create_view"
        /\ \/ ~HasNameAndQuery(last.json)
           \/ last.json["view"]["name"] = ""
           \/ last.json["view"]["query"] = "")
    => /\ last.status = "BAD_REQUEST"
       /\ views = pre.views

----------------------------------------------------------------------------
(* C11: an upsert with a query, done twice in a row, leaves the registry   *)
(* as the first one left it: the one view of that name, with the same id   *)
(* and the query given; the second response carries the same id, name and  *)
(* query as the first, and only the status may differ (created, then       *)
(* success).                                                               *)

\* the body of an upsert that carries this query
UpsertJson(q) == [view |-> [query |-> q]]

\* C11: upsert(n, q) after upsert(n, q) changes nothing and answers alike
C11_UpsertIdempotent ==
    /\ \A p \in Addressed \cap Directory, n \in ViewNames, q \in Queries :
          LET r1 == ViewResource_put(views, nextId, p, n, UpsertJson(q))
              r2 == ViewResource_put(r1.views, r1.nextId, p, n, UpsertJson(q))
          IN  /\ r1.status = IF views[p][n] = None THEN "CREATED" ELSE "OK"
              /\ r2.status = "OK"
              /\ r2.views = r1.views
              /\ r2.nextId = r1.nextId
              /\ r2.body = r1.body
              /\ r1.views[p][n] # None
              /\ r1.body = Public(r1.views[p][n][1])
              /\ r1.body.name = n
              /\ r1.body.query = q
              /\ \A at \in Slots \ {<<p, n>>} :
                    r1.views[at[1]][at[2]] = views[at[1]][at[2]]
    /\ (/\ last.op = "update_view"
        /\ last.status = "OK"
        /\ "query" \in DOMAIN last.json["view"]
        /\ pre.views[last.project][last.view_name] # None
        /\ pre.views[last.project][last.view_name][1].query
             = last.json["view"]["query"])
       => /\ views = pre.views
          /\ nextId = pre.nextId
          /\ last.body = Public(pre.views[last.project][last.view_name][1])

\* an upsert supplied the query the view was given last
C11_Witness ==
    /\ last.op = "update_view"
    /\ last.status = "OK"
    /\ "query" \in DOMAIN last.json["view"]
    /\ pre.born[<<last.project, last.view_name>>] # None
    /\ pre.born[<<last.project, last.view_name>>][1].query
         = last.json["view"]["query"]
    /\ views = pre.views

----------------------------------------------------------------------------
(* C12: every view that list views, get view, create view and upsert view  *)
(* return is a record of exactly id, name and query, the id being the      *)
(* stored view's metadata id; nothing else the registry stores appears;    *)
(* list views returns one record for each stored view of the project, in   *)
(* the registry's order.                                                   *)
C12_OnlyPublicFields ==
    /\ (last.op = "list_views" /\ last.status = "OK")
       => LET stored == get_views(views, last.project)
          IN  /\ Len(last.body) = Len(stored)
              /\ Len(stored) = Cardinality({n \in BodyNames :
                                               views[last.project][n] # None})
              /\ \A i \in 1..Len(stored) :
                    /\ DOMAIN last.body[i] = {"id", "name", "query"}
                    /\ last.body[i].id = stored[i].metadata.id
                    /\ last.body[i].name = stored[i].name
                    /\ last.body[i].query = stored[i].query
                    /\ views[last.project][stored[i].name] = Some(stored[i])
    /\ (last.op \in {"get_view", "create_view", "update_view"}
          /\ last.status \in {"OK", "CREATED"})
       => LET stored == views[last.project][last.view_name]
          IN  /\ stored # None
              /\ DOMAIN last.body = {"id", "name", "query"}
              /\ last.body.id = stored[1].metadata.id
              /\ last.body.name = stored[1].name
              /\ last.body.query = stored[1].query

\* list views returned two views
C12_Witness ==
    /\ last.op = "list_views"
    /\ last.status = "OK"
    /\ Len(last.body) >= 2

----------------------------------------------------------------------------
(* C14: a predict request whose body has no data field fails before any    *)
(* resolution work: the data hub is never asked for the project and        *)
(* predict is never invoked.                                               *)
C14_NoDataFailsBeforeLookup ==
    (last.op = "predict" /\ "data" \notin DOMAIN last.json)
    => /\ last.status \notin {"OK", "CREATED", "NO_CONTENT"}
       /\ ~Called("datahub.get")
       /\ ~Called("predict")
       /\ last.calls = <<>>

\* a request without data, for a project the data hub resolves and an
\* identifier that parses, has failed
C14_Witness ==
    /\ last.op = "predict"
    /\ "data" \notin DOMAIN last.json
    /\ last.project = "p1"
    /\ last.model_name = <<"a", ".", "3">>
    /\ last.status = "INTERNAL_SERVER_ERROR"

----------------------------------------------------------------------------
(* C16: the version parsing is total: for every identifier, the empty one, *)
(* one of dots only, one ending in a dot and one whose last segment is     *)
(* made of digit characters other than 0-9 included, it gives a base name  *)
(* and an optional version and never fails; a version is reported only     *)
(* when the last segment converts to an integer.                           *)
C16_ParsingNeverFails ==
    last.op = "predict"
    => /\ ParseModelName(last.model_name).raised = ""
       /\ last.body # [exception |-> "ValueError"]
       /\ ParseModelName(last.model_name).version # None
          => IntConverts(Split(last.model_name)[Len(Split(last.model_name))])

----------------------------------------------------------------------------
(* C15: every view request validates the shape of its payload, then        *)
(* resolves the project, then consults the registry, and reports the first *)
(* check that fails: a bad-request outcome is decided before any call is   *)
(* made, and a malformed request addressed at a missing project ends in    *)
(* bad-request.                                                            *)

ViewOps == {"list_views", "create_view", "get_view", "update_view", "delete_view"}

\* the payload fails the shape check its handler starts with
Malformed ==
    \/ last.op = "create_view" /\ post_invalid(last.json) # ""
    \/ last.op = "update_view" /\ "view" \notin DOMAIN last.json

\* the upsert found no view and no query to create one with
UpsertLacksQuery ==
    /\ last.op = "update_view"
    /\ "view" \in DOMAIN last.json
    /\ "query" \notin DOMAIN last.json["view"]
    /\ last.project \in Directory
    /\ pre.views[last.project][last.view_name] = None

\* the calls of the last request are these functions, in this order
CallsAre(fns) ==
    /\ Len(last.calls) = Len(fns)
    /\ \A i \in 1..Len(fns) : last.calls[i].fn = fns[i]

\* as stated: no payload check after the project is resolved
C15_ValidateThenResolve ==
    last.op \in ViewOps
    => /\ last.status = "BAD_REQUEST" => last.calls = <<>>
       /\ (Malformed /\ last.project \notin Directory)
          => last.status = "BAD_REQUEST"

(* C15, amended: the order is shape, project, registry, with one payload   *)
(* check that comes later: the upsert asks for the query only once the     *)
(* project is resolved and the view was looked up and found absent.  So    *)
(* bad-request is decided before any call except on that path, a malformed *)
(* request at a missing project is bad-request, a well-shaped one at a     *)
(* missing project (an upsert without query included) is not-found after   *)
(* the one call that resolves the project, and a mutating call is the      *)
(* third call, after get_project and get_view.                             *)
C15_ChecksInOrder ==
    last.op \in ViewOps
    => /\ last.status = "BAD_REQUEST"
          => \/ Malformed /\ last.calls = <<>>
             \/ UpsertLacksQuery /\ CallsAre(<<"get_project", "get_view">>)
       /\ Malformed => last.status = "BAD_REQUEST"
       /\ UpsertLacksQuery => last.status = "BAD_REQUEST"
       /\ (~Malformed /\ last.project \notin Directory)
          => /\ last.status = "NOT_FOUND"
             /\ CallsAre(<<"get_project">>)
       /\ last.status = "CONFLICT" => CallsAre(<<"get_project", "get_view">>)
       /\ \A i \in 1..Len(last.calls) :
             last.calls[i].fn \in Mutating
             => /\ i = 3
                /\ last.calls[1].fn = "get_project"
                /\ last.calls[2].fn = "get_view"

\* a create that is malformed and addressed at a missing project
C15_Witness ==
    /\ last.op = "create_view"
    /\ post_invalid(last.json) # ""
    /\ last.project \notin Directory
    /\ last.status = "BAD_REQUEST"

----------------------------------------------------------------------------
(* C18: a request makes at most one mutating registry call; one that ends  *)
(* in bad-request, not-found, conflict or an internal error makes none and *)
(* leaves the registry as it was; the read requests and predict make none; *)
(* a mutating call names the view of the request and no other view         *)
(* changes.                                                                *)

ReadOps == {"list_projects", "get_project", "list_models", "list_views", "get_view"}
Failures == {"BAD_REQUEST", "NOT_FOUND", "CONFLICT", "INTERNAL_SERVER_ERROR"}

\* model identifiers a predict request is tried with in every registry
PredictSamples == {<<"a">>, <<"a", ".", "3">>, <<"a", ".", "SUP2">>}

\* where the calls of a request change the registry
MutatingAt(calls) == {i \in 1..Len(calls) : calls[i].fn \in Mutating}

C18_MutationsConfined ==
    /\ Cardinality(MutatingAt(last.calls)) <= 1
    /\ last.status \in Failures
       => /\ MutatingAt(last.calls) = {}
          /\ views = pre.views
          /\ nextId = pre.nextId
    /\ last.op \in ReadOps
       => /\ MutatingAt(last.calls) = {}
          /\ views = pre.views
    /\ MutatingAt(last.calls) = {} => views = pre.views
    /\ \A i \in MutatingAt(last.calls) :
          /\ last.calls[i].project = last.project
          /\ last.calls[i].name = last.view_name
          /\ OnlyChanged(last.project, last.view_name)
    /\ \A p \in Addressed, m \in PredictSamples, j \in PredictJsons :
          LET R == ModelPredict_post(views, nextId, p, m, j)
          IN  /\ MutatingAt(R.calls) = {}
              /\ R.views = views
              /\ R.nextId = nextId

\* a delete went through while the project held another view, which stays
C18_Witness ==
    /\ last.op = "delete_view"
    /\ last.status = "NO_CONTENT"
    /\ pre.views[last.project][last.view_name] # None
    /\ views[last.project][last.view_name] = None
    /\ \E n \in ViewNames \ {last.view_name} :
          /\ views[last.project][n] # None
          /\ views[last.project][n] = pre.views[last.project][n]

----------------------------------------------------------------------------
(* C13: view creation is check-then-act with nothing between to hold the   *)
(* registry: a create request ends in conflict exactly when its own        *)
(* get_view saw the name, and once the check has passed it calls           *)
(* create_view whatever other requests have done since.  So two creates    *)
(* of one absent name can both pass the check and both call create_view.   *)

\* how many calls of this name the request has made
CallsOf(r, fn) == Cardinality({k \in 1..Len(r.calls) : r.calls[k].fn = fn})

C13_CreateIsCheckThenAct ==
    \A i \in DOMAIN reqs :
        reqs[i].op = "create_view"
        => /\ reqs[i].status = "CONFLICT"
              <=> (reqs[i].pc = "done" /\ reqs[i].seen # None)
           /\ reqs[i].pc = "act"
              => /\ reqs[i].seen = None
                 /\ CallsOf(reqs[i], "create_view") = 0
           /\ reqs[i].pc \in {"reread", "done"} /\ reqs[i].seen = None
              => /\ CallsOf(reqs[i], "create_view") = 1
                 /\ CallsOf(reqs[i], "get_view") <= 2
           /\ reqs[i].seen # None => CallsOf(reqs[i], "create_view") = 0

\* two creates of the name, which was absent: both checks have passed and
\* both have called create_view
C13_Witness ==
    \E i, j \in DOMAIN reqs :
        /\ i # j
        /\ reqs[i].op = "create_view" /\ reqs[j].op = "create_view"
        /\ reqs[i].seen = None /\ reqs[j].seen = None
        /\ reqs[i].status # "CONFLICT" /\ reqs[j].status # "CONFLICT"
        /\ CallsOf(reqs[i], "create_view") = 1
        /\ CallsOf(reqs[j], "create_view") = 1
        /\ reqs[i].raced \/ reqs[j].raced

----------------------------------------------------------------------------
(* C17: with create, upsert, get and delete of one view name in flight at  *)
(* once, every request ends in created, success, no-content, bad-request,  *)
(* not-found or conflict: no handler subscripts a view that get_view       *)
(* returned as None, and update_view is not called on a view deleted since *)
(* the check.                                                              *)
DefinedOutcomes ==
    {"CREATED", "OK", "NO_CONTENT", "BAD_REQUEST", "NOT_FOUND", "CONFLICT"}

C17_EveryRequestEndsDefined ==
    \A i \in DOMAIN reqs :
        /\ reqs[i].pc = "done" => reqs[i].status \in DefinedOutcomes
        /\ reqs[i].exception # "TypeError"
        /\ ~(CallsOf(reqs[i], "update_view") > 0 /\ reqs[i].raced)

====
